---- MODULE Spec2Model ----
(***************************************************************************)
(* Model of the launcher: the YAML-backed config store (config.py) and the *)
(* main window's section/item operations (gui.py, dialogs.py).             *)
(*                                                                         *)
(* A YAML mapping is a function from its keys to their values.  The file   *)
(* on disk is a record [exists, text]; a text is [kind, keys, val]: kind   *)
(* "empty" is a document that loads as None, kind "map" a mapping whose    *)
(* top-level keys stand in the order `keys` and whose values are `val`.    *)
(* Documents hold no anchors or aliases.  Python's None is the token None. *)
(***************************************************************************)
EXTENDS Integers, Sequences, FiniteSets, TLC

\* file:     the config file on disk
\* sections: LauncherWindow.sections, the window's in-memory list
\* seen:     the file as it was when the window last loaded it
\* last:     the last call or handler run, with its inputs and outcome
\* scen:     progress of the sequence Add Section, Add Item, Remove Section
\* window_pos: LauncherWindow.pos(), the window's position on the screen
\* _drag_pos: LauncherWindow._drag_pos, None or the grab offset of a drag
\* manager:  the ConfigManager of the settings dialog, while it is open
VARIABLES file, sections, seen, last, scen, window_pos, _drag_pos, manager

vars == <<file, sections, seen, last, scen, window_pos, _drag_pos, manager>>

\* The state of the window's position and drag, and of the settings dialog.
windowState == <<window_pos, _drag_pos, manager>>

\* ---------------------------------------------------------------- bounds
\* MaxEntries bounds the sections plus items the window's list holds when an
\* Add is accepted; MaxCoord bounds the panel coordinates saved.
MaxEntries == 3
MaxCoord == 1

\* MaxRows is the number of rows a list of the settings manager holds when
\* rows are dragged; MaxEdits bounds the entries added, edited, removed and
\* moved in the settings manager.
MaxRows == 3
MaxEdits == 2

\* ------------------------------------------------------- program constants
DEFAULT_PANEL_POSITION == <<"t", "o", "p">>
DEFAULT_THEME == "dark"
None == "<None>"

\* ------------------------------------------------------------ dict helpers
EmptyMap == [k \in {} |-> None]

Has(m, k) == k \in DOMAIN m

Get(m, k, d) == IF k \in DOMAIN m THEN m[k] ELSE d

Put(m, k, v) == [x \in (DOMAIN m) \cup {k} |-> IF x = k THEN v ELSE m[x]]

\* ------------------------------------------------------------------- YAML
\* yaml.dump writes a mapping's keys in sorted order.
KeyOrder == <<"extra", "items", "panel", "sections", "theme">>

SortedKeys(S) == SelectSeq(KeyOrder, LAMBDA k : k \in S)

yaml_dump(data) == [kind |-> "map", keys |-> SortedKeys(DOMAIN data), val |-> data]

\* yaml.safe_load: None for an empty document, the mapping otherwise.
yaml_safe_load(text) ==
  IF text.kind = "empty"
    THEN [isNone |-> TRUE, map |-> EmptyMap]
    ELSE [isNone |-> FALSE, map |-> [k \in {text.keys[i] : i \in DOMAIN text.keys} |-> text.val[k]]]

\* `yaml.safe_load(f) or {}`: None and the empty mapping are both falsy.
OrEmpty(loaded) == IF loaded.isNone \/ DOMAIN loaded.map = {} THEN EmptyMap ELSE loaded.map

NoText == [kind |-> "empty", keys |-> <<>>, val |-> EmptyMap]

NoFile == [exists |-> FALSE, text |-> NoText]

\* path.open("w") ... yaml.dump(data, f): the file exists afterwards.
WriteYaml(data) == [exists |-> TRUE, text |-> yaml_dump(data)]

\* ----------------------------------------------------------- str.lower()
UpperChars == <<"A", "B", "C", "D", "E", "F", "G", "H", "I", "J", "K", "L", "M",
                "N", "O", "P", "Q", "R", "S", "T", "U", "V", "W", "X", "Y", "Z">>

LowerChars == <<"a", "b", "c", "d", "e", "f", "g", "h", "i", "j", "k", "l", "m",
                "n", "o", "p", "q", "r", "s", "t", "u", "v", "w", "x", "y", "z">>

LowerChar(c) ==
  IF \E i \in DOMAIN UpperChars : UpperChars[i] = c
    THEN LowerChars[CHOOSE i \in DOMAIN UpperChars : UpperChars[i] = c]
    ELSE c

Lower(s) == [i \in DOMAIN s |-> LowerChar(s[i])]

PanelPositions == {<<"t", "o", "p">>, <<"b", "o", "t", "t", "o", "m">>,
                   <<"l", "e", "f", "t">>, <<"r", "i", "g", "h", "t">>}

\* ------------------------------------------------------------- config.py
\* Faulty variants of load_config: the legacy branch reads a misspelt key; a missing
\* file yields the synthetic section.
load_config_misspelt_items(f) ==
  IF ~f.exists THEN <<>>
  ELSE LET data == OrEmpty(yaml_safe_load(f.text))
       IN  IF Has(data, "sections") THEN data["sections"]
           ELSE IF Has(data, "items")
                  THEN <<[name |-> "Default", items |-> Get(data, "item", <<>>)]>>
                  ELSE <<>>

load_config_default_section(f) ==
  IF ~f.exists THEN <<[name |-> "Default", items |-> <<>>]>>
  ELSE LET data == OrEmpty(yaml_safe_load(f.text))
       IN  IF Has(data, "sections") THEN data["sections"]
           ELSE IF Has(data, "items")
                  THEN <<[name |-> "Default", items |-> Get(data, "items", <<>>)]>>
                  ELSE <<>>

load_config(f) ==
  IF ~f.exists THEN <<>>
  ELSE LET data == OrEmpty(yaml_safe_load(f.text))
       IN  IF Has(data, "sections") THEN data["sections"]
           ELSE IF Has(data, "items")
                  THEN <<[name |-> "Default", items |-> Get(data, "items", <<>>)]>>
                  ELSE <<>>

load_theme(f) ==
  IF ~f.exists THEN DEFAULT_THEME
  ELSE LET data == OrEmpty(yaml_safe_load(f.text))
       IN  Get(data, "theme", DEFAULT_THEME)

load_panel_geometry(f) ==
  IF ~f.exists THEN <<0, 0>>
  ELSE LET data == OrEmpty(yaml_safe_load(f.text))
           panel == Get(data, "panel", EmptyMap)
       IN  <<Get(panel, "x", 0), Get(panel, "y", 0)>>

\* Faulty variant of save_panel_geometry: the panel mapping is written anew.
save_panel_geometry_fresh_panel(x, y, f) ==
  LET data == IF f.exists THEN OrEmpty(yaml_safe_load(f.text)) ELSE EmptyMap
  IN  WriteYaml(Put(data, "panel", [x |-> x, y |-> y]))

save_panel_geometry(x, y, f) ==
  LET data  == IF f.exists THEN OrEmpty(yaml_safe_load(f.text)) ELSE EmptyMap
      panel == Get(data, "panel", EmptyMap)
      p1    == Put(panel, "x", x)
      p2    == Put(p1, "y", y)
  IN  WriteYaml(Put(data, "panel", p2))

\* Faulty variant of load_panel_position: the stored value is not lower-cased.
load_panel_position_no_lower(f) ==
  IF ~f.exists THEN DEFAULT_PANEL_POSITION
  ELSE LET data  == OrEmpty(yaml_safe_load(f.text))
           panel == Get(data, "panel", EmptyMap)
           pos   == Get(panel, "position", DEFAULT_PANEL_POSITION)
       IN  IF pos \notin PanelPositions THEN DEFAULT_PANEL_POSITION ELSE pos

load_panel_position(f) ==
  IF ~f.exists THEN DEFAULT_PANEL_POSITION
  ELSE LET data  == OrEmpty(yaml_safe_load(f.text))
           panel == Get(data, "panel", EmptyMap)
           pos   == Lower(Get(panel, "position", DEFAULT_PANEL_POSITION))
       IN  IF pos \notin PanelPositions THEN DEFAULT_PANEL_POSITION ELSE pos

\* Faulty variants of save_config: the list is written under the legacy key; the
\* existing file is not read before writing.
save_config_as_items(secs, f) ==
  LET data == IF f.exists THEN OrEmpty(yaml_safe_load(f.text)) ELSE EmptyMap
  IN  WriteYaml(Put(data, "items", secs))

save_config_fresh(secs, f) == WriteYaml(Put(EmptyMap, "sections", secs))

\* Faulty variant of save_config: sections already in the file are kept (setdefault).
save_config_keep_existing(secs, f) ==
  LET data == IF f.exists THEN OrEmpty(yaml_safe_load(f.text)) ELSE EmptyMap
  IN  WriteYaml(IF Has(data, "sections") THEN data ELSE Put(data, "sections", secs))

save_config(secs, f) ==
  LET data == IF f.exists THEN OrEmpty(yaml_safe_load(f.text)) ELSE EmptyMap
  IN  WriteYaml(Put(data, "sections", secs))

\* The top-level mapping a file text holds (no keys when there is no file).
TopLevel(f) == IF f.exists /\ f.text.kind = "map" THEN f.text.val ELSE EmptyMap

\* --------------------------------------------------- config file contents
\* The item of the spec's example, and a second legacy item.
Calc == [name |-> "Calc", type |-> "application", command |-> "calc"]

Web == [name |-> "Web", type |-> "url", command |-> "http://web"]

SecA == [name |-> "A", icon |-> None, items |-> <<Calc>>]

\* A section written by hand, without icon and items.
SecBare == [name |-> "A"]

SectionsOptions == {<<>>, <<SecA>>, <<SecA, SecBare>>}

ItemsOptions == {<<Calc>>, <<Calc, Web>>}

ThemeOptions == {"dark", "light", "solar"}

PanelOptions == {EmptyMap,
                 [position |-> <<"T", "o", "p">>],
                 [position |-> <<"L", "E", "F", "T">>, x |-> 1, y |-> 0],
                 [position |-> <<"b", "o", "t", "t", "o", "m">>],
                 [position |-> <<"c", "e", "n", "t", "e", "r">>],
                 [x |-> 1, y |-> 1]}

\* The mapping with key k when `opt` holds a value (a set of at most one value).
With(m, k, opt) == IF opt = {} THEN m ELSE Put(m, k, CHOOSE v \in opt : TRUE)

Optional(S) == {{}} \cup {{v} : v \in S}

Mappings ==
  {With(With(With(With(With(EmptyMap, "sections", s), "items", i), "theme", t), "panel", p), "extra", e) :
     s \in Optional(SectionsOptions), i \in Optional(ItemsOptions),
     t \in Optional(ThemeOptions), p \in Optional(PanelOptions), e \in Optional({"kept"})}

\* A hand-written document lists its keys in any order; two orders are drawn.
Reverse(q) == [i \in DOMAIN q |-> q[Len(q) + 1 - i]]

Texts ==
  {NoText} \cup
  UNION {{[kind |-> "map", keys |-> ks, val |-> m] :
            ks \in {SortedKeys(DOMAIN m), Reverse(SortedKeys(DOMAIN m))}} : m \in Mappings}

InitialFiles == {NoFile} \cup {[exists |-> TRUE, text |-> t] : t \in Texts}

SaveInputs == SectionsOptions

\* ----------------------------------------- calls of the config store's API
Call_load_config ==
  /\ last' = [op |-> "load_config", pre |-> file, retSections |-> load_config(file)]
  /\ UNCHANGED <<file, sections, seen, scen, windowState>>

Call_load_theme ==
  /\ last' = [op |-> "load_theme", pre |-> file, retTheme |-> load_theme(file)]
  /\ UNCHANGED <<file, sections, seen, scen, windowState>>

Call_load_panel_geometry ==
  /\ last' = [op |-> "load_panel_geometry", pre |-> file, retGeometry |-> load_panel_geometry(file)]
  /\ UNCHANGED <<file, sections, seen, scen, windowState>>

Call_load_panel_position ==
  /\ last' = [op |-> "load_panel_position", pre |-> file, retPosition |-> load_panel_position(file)]
  /\ UNCHANGED <<file, sections, seen, scen, windowState>>

Call_save_panel_geometry ==
  \E x \in 0..MaxCoord, y \in 0..MaxCoord :
    /\ file' = save_panel_geometry(x, y, file)
    /\ last' = [op |-> "save_panel_geometry", pre |-> file, x |-> x, y |-> y]
    /\ UNCHANGED <<sections, seen, scen, windowState>>

\* save_config is given a list of the caller's, or the list load_config returned.
Call_save_config ==
  \E s \in SaveInputs \cup {load_config(file)} :
    /\ file' = save_config(s, file)
    /\ last' = [op |-> "save_config", pre |-> file, arg |-> s]
    /\ UNCHANGED <<sections, seen, scen, windowState>>

NoCall == [op |-> "none"]

\* No settings dialog is open: there is no ConfigManager.  `edits` counts
\* the changes made to a manager's list so far.
Closed == [open |-> FALSE, edits |-> 0]

Idle == [phase |-> 0]

InitConfig ==
  /\ file \in InitialFiles
  /\ sections = <<>>
  /\ seen = NoFile
  /\ last = NoCall
  /\ scen = Idle
  /\ window_pos = <<0, 0>>
  /\ _drag_pos = None
  /\ manager = Closed

NextConfig ==
  \/ Call_load_config
  \/ Call_load_theme
  \/ Call_load_panel_geometry
  \/ Call_load_panel_position
  \/ Call_save_panel_geometry
  \/ Call_save_config

SpecConfig == InitConfig /\ [][NextConfig]_vars

\* ------------------------------------------------------------ dialogs.py
\* A line edit holds the characters typed; str.strip drops the blanks at both
\* ends and the result is the Python string of what is left.
RECURSIVE lstrip(_)
lstrip(t) == IF t # <<>> /\ Head(t) = " " THEN lstrip(Tail(t)) ELSE t

RECURSIVE rstrip(_)
rstrip(t) == IF t # <<>> /\ t[Len(t)] = " " THEN rstrip(SubSeq(t, 1, Len(t) - 1)) ELSE t

RECURSIVE Join(_)
Join(t) == IF t = <<>> THEN "" ELSE Head(t) \o Join(Tail(t))

strip(t) == Join(rstrip(lstrip(t)))

\* `text or None`
OrNone(str) == IF str = "" THEN None ELSE str

\* SectionDialog.get_name / get_icon
get_name(form) == strip(form.name)

get_icon(form) == OrNone(strip(form.icon))

\* ItemDialog.get_data().__dict__
get_data(form) ==
  [name |-> strip(form.name), type |-> form.type,
   command |-> strip(form.command), icon |-> OrNone(strip(form.icon))]

\* What the user types into the section form and the item form.
SectionForms == {[name |-> <<"A", " ">>, icon |-> <<>>],
                 [name |-> <<" ">>, icon |-> <<"i">>]}

ItemForms == {[name |-> <<"A">>, type |-> "application", command |-> <<"c">>, icon |-> <<>>],
              [name |-> <<"A">>, type |-> "url", command |-> <<"u">>, icon |-> <<" ">>],
              [name |-> <<>>, type |-> "script", command |-> <<"s">>, icon |-> <<"i">>]}

\* Entries as the dialogs write them: an item named A, a section named A
\* holding it, and a section named A holding nothing.
ItemA == [name |-> "A", type |-> "application", command |-> "c", icon |-> None]

SecA1 == [name |-> "A", icon |-> None, items |-> <<ItemA>>]

SecA0 == [name |-> "A", icon |-> None, items |-> <<>>]

\* ListSelectDialog.get_item: the combo box shows `names`; the user leaves it
\* at position pos (1-based) and presses OK or Cancel; the dialog returns the
\* text at that position.
get_item(names, pos, ok) == [text |-> names[pos], ok |-> ok]

\* ---------------------------------------------------- list operations
\* names.index(x): the first position holding x.
Index(names, x) == CHOOSE i \in DOMAIN names : names[i] = x /\ \A j \in 1..(i - 1) : names[j] # x

\* del list[idx]
del(list, idx) == [i \in 1..(Len(list) - 1) |-> IF i < idx THEN list[i] ELSE list[i + 1]]

\* Faulty variant of append: the entry is inserted at the front.
append_front(list, x) == <<x>> \o list

\* list.append(x)
append(list, x) == Append(list, x)

\* The number of sections and items a list holds.
RECURSIVE Entries(_)
Entries(secs) ==
  IF secs = <<>> THEN 0
  ELSE 1 + Len(Get(Head(secs), "items", <<>>)) + Entries(Tail(secs))

SectionNames(secs) == [i \in DOMAIN secs |-> Get(secs[i], "name", "")]

ItemNames(items) == [i \in DOMAIN items |-> Get(items[i], "name", "")]

\* ------------------------------------------------- gui.py: LauncherWindow
\* LauncherWindow._select_section: the index chosen, 0 standing for None.
\* Positions and indexes are 1-based.
_select_section(secs, pos, ok) ==
  LET names == SectionNames(secs)
      got   == get_item(names, pos, ok)
  IN  IF got.ok /\ got.text # "" THEN Index(names, got.text) ELSE 0

\* The files the window may find when it is constructed.
WindowFiles ==
  {NoFile,
   [exists |-> TRUE, text |-> [kind |-> "map", keys |-> <<"theme", "items">>,
                               val |-> [items |-> <<ItemA>>, theme |-> "light"]]],
   [exists |-> TRUE, text |-> [kind |-> "map", keys |-> <<"theme", "sections", "panel", "extra">>,
                               val |-> [sections |-> <<SecA1, SecA0>>, theme |-> "dark",
                                        panel |-> [x |-> 1, y |-> 1], extra |-> "kept"]]]}

\* The record of a handler run: the positions chosen in the selection dialogs
\* and how these were answered (0 and FALSE for a dialog not shown), the
\* indexes the handler resolved from them (0 for None), whether the form was
\* accepted (FALSE when not shown), whether the handler reached save_config,
\* and whether the file had changed since the window last loaded it.
Ran(op, secPos, secOk, idx, itemPos, itemOk, itemIdx, accept, saved) ==
  [op |-> op, secPos |-> secPos, secOk |-> secOk, idx |-> idx,
   itemPos |-> itemPos, itemOk |-> itemOk, itemIdx |-> itemIdx,
   accept |-> accept, saved |-> saved, stale |-> file # seen]

\* Progress of the sequence: Add Section accepted on a window in step with the
\* file (phase 1: base is the list before, at the new section's position), then
\* Add Item with the new section chosen and every dialog shown accepted (phase
\* 2), then Remove Section with the new section chosen (phase 3).
ScenStep(l) ==
  IF l.op = "add_section" /\ l.saved /\ file = seen
    THEN [phase |-> 1, base |-> sections, at |-> Len(sections) + 1]
  ELSE IF scen.phase = 1 /\ l.op = "add_item" /\ l.secOk /\ l.secPos = scen.at
          /\ (l.idx # 0 => l.accept)
    THEN [scen EXCEPT !.phase = 2]
  ELSE IF scen.phase = 2 /\ l.op = "remove_section" /\ l.secOk /\ l.secPos = scen.at
    THEN [scen EXCEPT !.phase = 3]
  ELSE Idle

\* Faulty variant of SaveAndReload: the list is saved as it was before the change.
SaveAndReload_before_change(mem) ==
  /\ file' = save_config(sections, file)
  /\ sections' = load_config(file')
  /\ seen' = file'
  /\ UNCHANGED windowState

\* save_config(self.sections); self.reload_items()
SaveAndReload(mem) ==
  /\ file' = save_config(mem, file)
  /\ sections' = load_config(file')
  /\ seen' = file'
  /\ UNCHANGED windowState

\* Faulty variant of Return: the handler reloads the list on its way out.
Return_reloading ==
  /\ sections' = load_config(file)
  /\ seen' = file
  /\ UNCHANGED <<file, windowState>>

\* A handler that returns without touching the list or the file.
Return == UNCHANGED <<file, sections, seen, windowState>>

reload_items ==
  /\ sections' = load_config(file)
  /\ seen' = file
  /\ last' = [op |-> "reload_items"]
  /\ scen' = Idle
  /\ UNCHANGED <<file, windowState>>

add_section ==
  \E form \in SectionForms, accept \in BOOLEAN :
    /\ accept => Entries(sections) < MaxEntries
    /\ IF accept
         THEN SaveAndReload(append(sections, [name |-> get_name(form), icon |-> get_icon(form),
                                              items |-> <<>>]))
         ELSE Return
    /\ last' = Ran("add_section", 0, FALSE, 0, 0, FALSE, 0, accept, accept)
    /\ scen' = ScenStep(last')

edit_section ==
  IF sections = <<>>
    THEN /\ Return
         /\ last' = Ran("edit_section", 0, FALSE, 0, 0, FALSE, 0, FALSE, FALSE)
         /\ scen' = ScenStep(last')
    ELSE \E pos \in DOMAIN sections, ok \in BOOLEAN :
           LET idx == _select_section(sections, pos, ok)
           IN  IF idx = 0
                 THEN /\ Return
                      /\ last' = Ran("edit_section", pos, ok, 0, 0, FALSE, 0, FALSE, FALSE)
                      /\ scen' = ScenStep(last')
                 ELSE \E form \in SectionForms, accept \in BOOLEAN :
                        /\ IF accept
                             THEN SaveAndReload(
                                    [sections EXCEPT ![idx] =
                                       Put(Put(@, "name", get_name(form)), "icon", get_icon(form))])
                             ELSE Return
                        /\ last' = Ran("edit_section", pos, ok, idx, 0, FALSE, 0, accept, accept)
                        /\ scen' = ScenStep(last')

remove_section ==
  IF sections = <<>>
    THEN /\ Return
         /\ last' = Ran("remove_section", 0, FALSE, 0, 0, FALSE, 0, FALSE, FALSE)
         /\ scen' = ScenStep(last')
    ELSE \E pos \in DOMAIN sections, ok \in BOOLEAN :
           LET idx == _select_section(sections, pos, ok)
           IN  /\ IF idx # 0 THEN SaveAndReload(del(sections, idx)) ELSE Return
               /\ last' = Ran("remove_section", pos, ok, idx, 0, FALSE, 0, FALSE, idx # 0)
               /\ scen' = ScenStep(last')

add_item ==
  IF sections = <<>>
    THEN /\ Return
         /\ last' = Ran("add_item", 0, FALSE, 0, 0, FALSE, 0, FALSE, FALSE)
         /\ scen' = ScenStep(last')
    ELSE \E pos \in DOMAIN sections, ok \in BOOLEAN :
           LET idx == _select_section(sections, pos, ok)
           IN  IF idx = 0
                 THEN /\ Return
                      /\ last' = Ran("add_item", pos, ok, 0, 0, FALSE, 0, FALSE, FALSE)
                      /\ scen' = ScenStep(last')
                 ELSE \E form \in ItemForms, accept \in BOOLEAN :
                        /\ accept => Entries(sections) < MaxEntries
                        /\ IF accept
                             THEN SaveAndReload(
                                    [sections EXCEPT ![idx] =
                                       Put(@, "items", append(Get(@, "items", <<>>), get_data(form)))])
                             ELSE Return
                        /\ last' = Ran("add_item", pos, ok, idx, 0, FALSE, 0, accept, accept)
                        /\ scen' = ScenStep(last')

edit_item ==
  IF sections = <<>>
    THEN /\ Return
         /\ last' = Ran("edit_item", 0, FALSE, 0, 0, FALSE, 0, FALSE, FALSE)
         /\ scen' = ScenStep(last')
    ELSE \E pos \in DOMAIN sections, ok \in BOOLEAN :
           LET sec_idx == _select_section(sections, pos, ok)
           IN  IF sec_idx = 0 \/ Get(sections[sec_idx], "items", <<>>) = <<>>
                 THEN /\ Return
                      /\ last' = Ran("edit_item", pos, ok, sec_idx, 0, FALSE, 0, FALSE, FALSE)
                      /\ scen' = ScenStep(last')
                 ELSE LET items == sections[sec_idx]["items"]
                          names == ItemNames(items)
                      IN  \E ipos \in DOMAIN names, iok \in BOOLEAN :
                            LET got == get_item(names, ipos, iok)
                            IN  IF got.ok /\ got.text # ""
                                  THEN LET idx == Index(names, got.text)
                                       IN  \E form \in ItemForms, accept \in BOOLEAN :
                                             /\ IF accept
                                                  THEN SaveAndReload(
                                                         [sections EXCEPT ![sec_idx] =
                                                            Put(@, "items", [items EXCEPT ![idx] = get_data(form)])])
                                                  ELSE Return
                                             /\ last' = Ran("edit_item", pos, ok, sec_idx, ipos, iok, idx,
                                                            accept, accept)
                                             /\ scen' = ScenStep(last')
                                  ELSE /\ Return
                                       /\ last' = Ran("edit_item", pos, ok, sec_idx, ipos, iok, 0, FALSE, FALSE)
                                       /\ scen' = ScenStep(last')

remove_item ==
  IF sections = <<>>
    THEN /\ Return
         /\ last' = Ran("remove_item", 0, FALSE, 0, 0, FALSE, 0, FALSE, FALSE)
         /\ scen' = ScenStep(last')
    ELSE \E pos \in DOMAIN sections, ok \in BOOLEAN :
           LET sec_idx == _select_section(sections, pos, ok)
           IN  IF sec_idx = 0 \/ Get(sections[sec_idx], "items", <<>>) = <<>>
                 THEN /\ Return
                      /\ last' = Ran("remove_item", pos, ok, sec_idx, 0, FALSE, 0, FALSE, FALSE)
                      /\ scen' = ScenStep(last')
                 ELSE LET items == sections[sec_idx]["items"]
                          names == ItemNames(items)
                      IN  \E ipos \in DOMAIN names, iok \in BOOLEAN :
                            LET got == get_item(names, ipos, iok)
                            IN  IF got.ok /\ got.text # ""
                                  THEN LET idx == Index(names, got.text)
                                       IN  /\ SaveAndReload(
                                                [sections EXCEPT ![sec_idx] = Put(@, "items", del(items, idx))])
                                           /\ last' = Ran("remove_item", pos, ok, sec_idx, ipos, iok, idx, FALSE, TRUE)
                                           /\ scen' = ScenStep(last')
                                  ELSE /\ Return
                                       /\ last' = Ran("remove_item", pos, ok, sec_idx, ipos, iok, 0, FALSE, FALSE)
                                       /\ scen' = ScenStep(last')

\* ---------------------------------------------------- gui.py: ConfigEditor
\* What the text editor holds when its Save is pressed: whatever was typed.
\* Drawn here: the file's text with the theme set to solar, and a document
\* with one empty section and a theme.
EditorTexts ==
  {[kind |-> "map",
    keys |-> IF Has(TopLevel(file), "theme") THEN file.text.keys ELSE Append(file.text.keys, "theme"),
    val  |-> Put(TopLevel(file), "theme", "solar")],
   [kind |-> "map", keys |-> <<"theme", "sections">>,
    val  |-> [sections |-> <<SecA0>>, theme |-> "light"]]}

\* ConfigEditor.save: CONFIG_PATH.write_text(self.editor.toPlainText())
ConfigEditor_save ==
  \E text \in EditorTexts :
    /\ file' = [exists |-> TRUE, text |-> text]
    /\ file' # file
    /\ last' = [op |-> "ConfigEditor.save"]
    /\ scen' = Idle
    /\ UNCHANGED <<sections, seen, windowState>>

\* ------------------------------------------------------- the main window
\* LauncherWindow.__init__: reload_items() has run once.
Init ==
  /\ file \in WindowFiles
  /\ sections = load_config(file)
  /\ seen = file
  /\ last = NoCall
  /\ scen = Idle
  /\ window_pos = load_panel_geometry(file)
  /\ _drag_pos = None
  /\ manager = Closed

Next ==
  \/ add_section
  \/ edit_section
  \/ remove_section
  \/ add_item
  \/ edit_item
  \/ remove_item
  \/ reload_items
  \/ ConfigEditor_save

Spec == Init /\ [][Next]_vars

\* ----------------------------- gui.py: launching, dragging, theme switching
\* `not cmd`: None and the empty string are falsy.
Falsy(v) == v = None \/ v = ""

\* What webbrowser.open does with a URL: it returns True, returns False, or
\* raises.  What subprocess.Popen(cmd, shell=True) does: it starts the shell,
\* whose command then runs or fails unseen by the caller, or it raises (no
\* shell to start, no process to be had, a command that is no string).
BrowserOutcomes == {"True", "False", "raises"}

PopenOutcomes == {"runs", "exits_with_error", "raises"}

\* The calls one run of launch_item makes: webbrowser.open(url),
\* subprocess.Popen(args, shell), QMessageBox.critical(title, name).
NoCalls == [browser |-> <<>>, popen |-> <<>>, critical |-> <<>>]

LaunchFailed(item) == <<[title |-> "Launch Failed", name |-> Get(item, "name", "")]>>

\* Faulty variant of launch_item_calls: only the browser call is in the try block.
launch_item_calls_try_url_only(item, outcome) ==
  LET typ == Get(item, "type", None)
      cmd == Get(item, "command", None)
  IN  IF Falsy(cmd) THEN NoCalls
      ELSE IF typ = "url"
        THEN [browser |-> <<cmd>>, popen |-> <<>>,
              critical |-> IF outcome = "True" THEN <<>> ELSE LaunchFailed(item)]
        ELSE [browser |-> <<>>, popen |-> <<[args |-> cmd, shell |-> TRUE]>>,
              critical |-> <<>>]

\* Faulty variant of launch_item_calls: the command is not looked at first.
launch_item_calls_unchecked_command(item, outcome) ==
  LET typ == Get(item, "type", None)
      cmd == Get(item, "command", None)
  IN  IF typ = "url"
        THEN [browser |-> <<cmd>>, popen |-> <<>>,
              critical |-> IF outcome = "True" THEN <<>> ELSE LaunchFailed(item)]
        ELSE [browser |-> <<>>, popen |-> <<[args |-> cmd, shell |-> TRUE]>>,
              critical |-> IF outcome = "raises" THEN LaunchFailed(item) ELSE <<>>]

\* launch_item: the calls made for `item` when the call it dispatches to has
\* the given outcome.
launch_item_calls(item, outcome) ==
  LET typ == Get(item, "type", None)
      cmd == Get(item, "command", None)
  IN  IF Falsy(cmd) THEN NoCalls
      ELSE IF typ = "url"
        THEN [browser |-> <<cmd>>, popen |-> <<>>,
              critical |-> IF outcome = "True" THEN <<>> ELSE LaunchFailed(item)]
        ELSE [browser |-> <<>>, popen |-> <<[args |-> cmd, shell |-> TRUE]>>,
              critical |-> IF outcome = "raises" THEN LaunchFailed(item) ELSE <<>>]

\* The outcomes the call launch_item dispatches to can have for `item`.
Outcomes(item) ==
  IF Falsy(Get(item, "command", None)) THEN {"not called"}
  ELSE IF Get(item, "type", None) = "url" THEN BrowserOutcomes ELSE PopenOutcomes

\* The user picks an item in the drop-down menu of a section.
launch_item ==
  \E s \in DOMAIN sections :
    \E i \in DOMAIN Get(sections[s], "items", <<>>) :
      LET item == Get(sections[s], "items", <<>>)[i]
      IN  \E outcome \in Outcomes(item) :
            /\ last' = [op |-> "launch_item", item |-> item, outcome |-> outcome,
                        calls |-> launch_item_calls(item, outcome)]
            /\ UNCHANGED <<file, sections, seen, scen, windowState>>

\* Points of the screen, and the difference of two points.
Points == (0..MaxCoord) \X (0..MaxCoord)

Minus(a, b) == <<a[1] - b[1], a[2] - b[2]>>

Buttons == {"left", "right"}

\* mousePressEvent: event.button() at event.globalPosition()
mousePressEvent ==
  \E button \in Buttons, globalPosition \in Points :
    /\ _drag_pos' = IF button = "left" THEN Minus(globalPosition, window_pos) ELSE _drag_pos
    /\ last' = [op |-> "mousePressEvent", button |-> button]
    /\ UNCHANGED <<file, sections, seen, scen, window_pos, manager>>

\* mouseMoveEvent: event.buttons() held at event.globalPosition(); the window
\* stays on the screen.
mouseMoveEvent ==
  \E buttons \in SUBSET Buttons, globalPosition \in Points :
    /\ IF _drag_pos # None /\ "left" \in buttons
         THEN /\ Minus(globalPosition, _drag_pos) \in Points
              /\ window_pos' = Minus(globalPosition, _drag_pos)
         ELSE UNCHANGED window_pos
    /\ last' = [op |-> "mouseMoveEvent", buttons |-> buttons]
    /\ UNCHANGED <<file, sections, seen, scen, _drag_pos, manager>>

\* mouseReleaseEvent: any button released
mouseReleaseEvent ==
  \E button \in Buttons :
    /\ IF _drag_pos # None
         THEN /\ _drag_pos' = None
              /\ file' = save_panel_geometry(window_pos[1], window_pos[2], file)
         ELSE UNCHANGED <<file, _drag_pos>>
    /\ last' = [op |-> "mouseReleaseEvent", button |-> button, pre |-> file,
                saved |-> _drag_pos # None]
    /\ UNCHANGED <<sections, seen, scen, window_pos, manager>>

\* Faulty variant of toggle_theme: the stored value is compared with light.
toggle_theme_from_light(f) ==
  LET current == load_theme(f)
      new     == IF current = "light" THEN "dark" ELSE "light"
      data    == IF f.exists THEN OrEmpty(yaml_safe_load(f.text)) ELSE EmptyMap
  IN  WriteYaml(Put(data, "theme", new))

\* _toggle_theme: the file after it.
toggle_theme(f) ==
  LET current == load_theme(f)
      new     == IF current = "dark" THEN "light" ELSE "dark"
      data    == IF f.exists THEN OrEmpty(yaml_safe_load(f.text)) ELSE EmptyMap
  IN  WriteYaml(Put(data, "theme", new))

\* _toggle_theme; `start` is the theme in force before the toggle before this
\* one, when the last handler run was a toggle too.
_toggle_theme ==
  /\ file' = toggle_theme(file)
  /\ last' = [op |-> "_toggle_theme", pre |-> file,
              start |-> IF last.op = "_toggle_theme" THEN load_theme(last.pre) ELSE None]
  /\ UNCHANGED <<sections, seen, scen, windowState>>

\* Items as a config file written by hand may hold them: a URL, a command
\* with no type, one of a type unknown to the launcher, a URL with no command
\* and an application whose command is empty.
ItemUrl == [name |-> "W", type |-> "url", command |-> "u"]

ItemNoType == [name |-> "N", command |-> "c"]

ItemFolder == [type |-> "folder", command |-> "c"]

ItemNoCommand == [name |-> "E", type |-> "url"]

ItemEmptyCommand == [name |-> "E", type |-> "application", command |-> ""]

\* The files the window may find when it is constructed.
PanelFiles ==
  {NoFile,
   [exists |-> TRUE, text |-> NoText],
   [exists |-> TRUE, text |-> [kind |-> "map", keys |-> <<"theme", "items">>,
                               val |-> [items |-> <<ItemUrl, ItemNoCommand>>, theme |-> "solar"]]],
   [exists |-> TRUE, text |-> [kind |-> "map", keys |-> <<"sections", "panel", "extra">>,
                               val |-> [sections |-> <<[name |-> "A", items |-> <<ItemA, ItemNoType>>],
                                                       [name |-> "B", items |-> <<ItemFolder, ItemEmptyCommand>>]>>,
                                        panel |-> [position |-> <<"l", "e", "f", "t">>, x |-> 1],
                                        extra |-> "kept"]]],
   [exists |-> TRUE, text |-> [kind |-> "map", keys |-> <<"theme", "panel">>,
                               val |-> [theme |-> "light", panel |-> [x |-> 1, y |-> 1]]]]}

\* LauncherWindow.__init__: the window is moved to the stored geometry and
\* reload_items() has run once.
InitPanel ==
  /\ file \in PanelFiles
  /\ sections = load_config(file)
  /\ seen = file
  /\ last = NoCall
  /\ scen = Idle
  /\ window_pos = load_panel_geometry(file)
  /\ _drag_pos = None
  /\ manager = Closed

NextPanel ==
  \/ launch_item
  \/ mousePressEvent
  \/ mouseMoveEvent
  \/ mouseReleaseEvent
  \/ _toggle_theme

SpecPanel == InitPanel /\ [][NextPanel]_vars

\* --------------------------------------------------- gui.py: ConfigManager
\* The manager's lists are Python lists and its rows are Qt rows: both count
\* from 0, and currentRow() is -1 when no row is current.
At(list, i) == list[i + 1]

\* list.pop(i): the list that is left
pop(list, i) == del(list, i + 1)

\* list.insert(i, x), for 0 <= i <= len(list)
insert(list, i, x) == SubSeq(list, 1, i) \o <<x>> \o SubSeq(list, i + 1, Len(list))

\* Faulty variant of reordered: the destination is not adjusted for the entry
\* taken out.
reordered_row_as_given(list, start, row) ==
  IF start = row \/ start = row - 1 THEN list
  ELSE LET moved == At(list, start)
           rest  == pop(list, start)
       IN  insert(rest, IF row > Len(rest) THEN Len(rest) ELSE row, moved)

\* _sections_reordered / _items_reordered: the list after the handler
reordered(list, start, row) ==
  IF start = row \/ start = row - 1 THEN list
  ELSE LET moved == At(list, start)
           rest  == pop(list, start)
           r     == IF row > start THEN row - 1 ELSE row
       IN  insert(rest, r, moved)

\* What a QListWidget in InternalMove mode shows after its row `start` was
\* dropped before the row that stood at `row`: the rows before `row`, the row
\* moved, the rows from `row` on.  A drop onto its own place moves nothing.
moveRow(rows, start, row) ==
  IF row = start \/ row = start + 1 THEN rows
  ELSE IF row < start
    THEN SubSeq(rows, 1, row) \o <<At(rows, start)>> \o SubSeq(rows, row + 1, start)
           \o SubSeq(rows, start + 2, Len(rows))
    ELSE SubSeq(rows, 1, start) \o SubSeq(rows, start + 2, row) \o <<At(rows, start)>>
           \o SubSeq(rows, row + 1, Len(rows))

\* The row of the entry moved, after the move: the current row follows it.
movedTo(start, row) ==
  IF row = start \/ row = start + 1 THEN start
  ELSE IF row < start THEN row ELSE row - 1

\* QListWidget.takeItem(row) of the current row among n: the row after it
\* becomes current, or the one before it when it was the last.
currentAfterTake(n, row) ==
  IF n = 1 THEN -1 ELSE IF row < n - 1 THEN row ELSE row - 1

\* _show_items(idx): the texts item_list holds afterwards
_show_items(secs, idx) ==
  IF idx < 0 \/ idx >= Len(secs) THEN <<>>
  ELSE ItemNames(Get(At(secs, idx), "items", <<>>))

\* A ConfigManager whose sections are secs, with section row `row` current
\* and the list of items filled for it; no item row is current.
Showing(secs, row) ==
  [open |-> TRUE, edits |-> manager.edits,
   sections |-> secs, section_list |-> SectionNames(secs),
   section_row |-> row, item_list |-> _show_items(secs, row), item_row |-> -1]

\* ConfigManager.reload: the manager afterwards
reloaded(f) ==
  LET secs == load_config(f)
  IN  Showing(secs, IF Len(secs) > 0 THEN 0 ELSE -1)

\* One more entry may be added, edited, removed or moved.
MayEdit == manager.edits < MaxEdits

\* Faulty variant of ManagerOnly: the handler saves what it has changed.
ManagerOnly_saving ==
  /\ file' = save_config(manager'.sections, file)
  /\ UNCHANGED <<sections, seen, scen, window_pos, _drag_pos>>

\* The handlers of the manager's buttons and lists, Save apart, touch the
\* manager alone.
ManagerOnly == UNCHANGED <<file, sections, seen, scen, window_pos, _drag_pos>>

\* The record of a manager handler's run.
Did(op) == [op |-> op]

Moved(op, start, row) == [op |-> op, start |-> start, row |-> row]

\* _open_settings up to dlg.exec(): ConfigManager(dlg), whose __init__
\* reloads, and editor.reload().
_open_settings ==
  /\ ~manager.open
  /\ manager' = reloaded(file)
  /\ last' = Did("_open_settings")
  /\ ManagerOnly

\* The dialog is closed: dlg.exec() returns, and self.reload_items() runs.
\* `unsaved` records whether the manager's list differed from the file's.
_open_settings_closed ==
  /\ manager.open
  /\ manager' = [Closed EXCEPT !.edits = manager.edits]
  /\ sections' = load_config(file)
  /\ seen' = file
  /\ last' = [op |-> "_open_settings_closed", unsaved |-> manager.sections # load_config(file)]
  /\ UNCHANGED <<file, scen, window_pos, _drag_pos>>

\* The Reload button
ConfigManager_reload ==
  /\ manager.open
  /\ manager' = reloaded(file)
  /\ last' = Did("ConfigManager.reload")
  /\ ManagerOnly

\* The Save button
ConfigManager_save ==
  /\ manager.open
  /\ file' = save_config(manager.sections, file)
  /\ last' = Did("ConfigManager.save")
  /\ UNCHANGED <<sections, seen, scen, windowState>>

\* The user clicks a row of the section list: currentRowChanged calls
\* _show_items when the row was not the current one.
click_section ==
  /\ manager.open
  /\ \E row \in 0..(Len(manager.section_list) - 1) :
       /\ row # manager.section_row
       /\ manager' = Showing(manager.sections, row)
  /\ last' = Did("_show_items")
  /\ ManagerOnly

\* The user clicks a row of the item list.
click_item ==
  /\ manager.open
  /\ \E row \in 0..(Len(manager.item_list) - 1) :
       /\ row # manager.item_row
       /\ manager' = [manager EXCEPT !.item_row = row]
  /\ last' = Did("item_list.setCurrentRow")
  /\ ManagerOnly

_add_section ==
  /\ manager.open
  /\ \E form \in SectionForms, accept \in BOOLEAN :
       /\ accept => MayEdit /\ Entries(manager.sections) < MaxEntries
       /\ manager' =
            IF accept
              THEN LET secs == append(manager.sections,
                                      [name |-> get_name(form), icon |-> get_icon(form), items |-> <<>>])
                   IN  [manager EXCEPT !.edits = @ + 1,
                                       !.sections = secs,
                                       !.section_list = append(@, get_name(form)),
                                       !.section_row = Len(secs) - 1,
                                       !.item_list = _show_items(secs, Len(secs) - 1),
                                       !.item_row = -1]
              ELSE manager
  /\ last' = Did("_add_section")
  /\ ManagerOnly

_edit_section ==
  /\ manager.open
  /\ LET idx == manager.section_row
     IN  IF idx < 0 THEN UNCHANGED manager
         ELSE \E form \in SectionForms, accept \in BOOLEAN :
                /\ accept => MayEdit
                /\ manager' =
                  IF accept
                    THEN [manager EXCEPT
                            !.edits = @ + 1,
                            !.sections[idx + 1] = Put(Put(@, "name", get_name(form)), "icon", get_icon(form)),
                            !.section_list[idx + 1] = get_name(form)]
                    ELSE manager
  /\ last' = Did("_edit_section")
  /\ ManagerOnly

_remove_section ==
  /\ manager.open
  /\ LET idx == manager.section_row
     IN  IF idx < 0 THEN UNCHANGED manager
         ELSE LET secs == pop(manager.sections, idx)
                  row  == currentAfterTake(Len(manager.section_list), idx)
              IN  /\ MayEdit
                  /\ manager' = [manager EXCEPT !.edits = @ + 1,
                                             !.sections = secs,
                                             !.section_list = pop(@, idx),
                                             !.section_row = row,
                                             !.item_list = _show_items(secs, row),
                                             !.item_row = -1]
  /\ last' = Did("_remove_section")
  /\ ManagerOnly

_add_item ==
  /\ manager.open
  /\ LET sec_idx == manager.section_row
     IN  IF sec_idx < 0 THEN UNCHANGED manager
         ELSE \E form \in ItemForms, accept \in BOOLEAN :
                /\ accept => MayEdit /\ Entries(manager.sections) < MaxEntries
                /\ manager' =
                     IF accept
                       THEN [manager EXCEPT
                               !.edits = @ + 1,
                               !.sections[sec_idx + 1] =
                                  Put(@, "items", append(Get(@, "items", <<>>), get_data(form))),
                               !.item_list = append(@, get_data(form).name)]
                       ELSE manager
  /\ last' = Did("_add_item")
  /\ ManagerOnly

_edit_item ==
  /\ manager.open
  /\ LET sec_idx  == manager.section_row
         item_idx == manager.item_row
     IN  IF sec_idx < 0 \/ item_idx < 0 THEN UNCHANGED manager
         ELSE \E form \in ItemForms, accept \in BOOLEAN :
                /\ accept => MayEdit
                /\ manager' =
                  IF accept
                    THEN [manager EXCEPT
                            !.edits = @ + 1,
                            !.sections[sec_idx + 1]["items"][item_idx + 1] = get_data(form),
                            !.item_list[item_idx + 1] = get_data(form).name]
                    ELSE manager
  /\ last' = Did("_edit_item")
  /\ ManagerOnly

_remove_item ==
  /\ manager.open
  /\ LET sec_idx  == manager.section_row
         item_idx == manager.item_row
     IN  IF sec_idx < 0 \/ item_idx < 0 THEN UNCHANGED manager
         ELSE /\ MayEdit
              /\ manager' = [manager EXCEPT
                            !.edits = @ + 1,
                            !.sections[sec_idx + 1]["items"] = pop(@, item_idx),
                            !.item_list = pop(@, item_idx),
                            !.item_row = currentAfterTake(Len(manager.item_list), item_idx)]
  /\ last' = Did("_remove_item")
  /\ ManagerOnly

\* The user drags row `start` of the section list and drops it before row
\* `row`: the press makes the row current, the widget moves it and rowsMoved
\* calls _sections_reordered(start, row).
_sections_reordered ==
  /\ manager.open
  /\ \E start \in 0..(Len(manager.section_list) - 1), row \in 0..Len(manager.section_list) :
       /\ movedTo(start, row) # start => MayEdit
       /\ manager' = [manager EXCEPT
                        !.edits = IF movedTo(start, row) # start THEN @ + 1 ELSE @,
                        !.sections = reordered(@, start, row),
                        !.section_list = moveRow(@, start, row),
                        !.section_row = movedTo(start, row),
                        !.item_list = IF start = manager.section_row THEN @
                                      ELSE _show_items(manager.sections, start),
                        !.item_row = IF start = manager.section_row THEN @ ELSE -1]
       /\ last' = Moved("_sections_reordered", start, row)
  /\ ManagerOnly

\* The same for a row of the item list and _items_reordered(start, row).
_items_reordered ==
  /\ manager.open
  /\ \E start \in 0..(Len(manager.item_list) - 1), row \in 0..Len(manager.item_list) :
       LET sec_idx == manager.section_row
       IN  /\ movedTo(start, row) # start => MayEdit
           /\ manager' = [manager EXCEPT
                            !.edits = IF movedTo(start, row) # start THEN @ + 1 ELSE @,
                            !.sections = IF sec_idx < 0 THEN @
                                         ELSE [@ EXCEPT ![sec_idx + 1] =
                                                 Put(@, "items", reordered(Get(@, "items", <<>>), start, row))],
                            !.item_list = moveRow(@, start, row),
                            !.item_row = movedTo(start, row)]
           /\ last' = Moved("_items_reordered", start, row)
  /\ ManagerOnly

\* The window is up and the settings dialog is not open.
InitSettings ==
  /\ file \in WindowFiles
  /\ sections = load_config(file)
  /\ seen = file
  /\ last = NoCall
  /\ scen = Idle
  /\ window_pos = load_panel_geometry(file)
  /\ _drag_pos = None
  /\ manager = Closed

NextSettings ==
  \/ _open_settings
  \/ _open_settings_closed
  \/ ConfigManager_reload
  \/ ConfigManager_save
  \/ click_section
  \/ click_item
  \/ _add_section
  \/ _edit_section
  \/ _remove_section
  \/ _add_item
  \/ _edit_item
  \/ _remove_item
  \/ _sections_reordered
  \/ _items_reordered

SpecSettings == InitSettings /\ [][NextSettings]_vars

\* Files for dragging rows: MaxRows sections, the first of them with MaxRows
\* items, all of different names, in a file with a theme or alone.
RowNames == <<"A", "B", "C", "D", "E">>

RowItems == [i \in 1..MaxRows |-> [name |-> RowNames[i], type |-> "application",
                                   command |-> "c", icon |-> None]]

RowSections == [i \in 1..MaxRows |-> [name |-> RowNames[i], icon |-> None,
                                      items |-> IF i = 1 THEN RowItems ELSE <<>>]]

ReorderFiles ==
  {[exists |-> TRUE, text |-> [kind |-> "map", keys |-> <<"sections">>,
                               val |-> [sections |-> RowSections]]],
   [exists |-> TRUE, text |-> [kind |-> "map", keys |-> <<"theme", "sections">>,
                               val |-> [sections |-> RowSections, theme |-> "light"]]]}

InitReorder ==
  /\ file \in ReorderFiles
  /\ sections = load_config(file)
  /\ seen = file
  /\ last = NoCall
  /\ scen = Idle
  /\ window_pos = load_panel_geometry(file)
  /\ _drag_pos = None
  /\ manager = Closed

NextReorder ==
  \/ _open_settings
  \/ _open_settings_closed
  \/ click_section
  \/ click_item
  \/ _sections_reordered
  \/ _items_reordered

SpecReorder == InitReorder /\ [][NextReorder]_vars

\* ======================================================================
\* Properties
\* ======================================================================

IsLegacy(f) == Has(TopLevel(f), "items") /\ ~Has(TopLevel(f), "sections")

\* C1: round trip. When save_config is given what load_config returned for the
\* file (missing, with sections, legacy, with extra keys), the next load_config
\* returns that same list, and saving it once more leaves the file as it is.
C1_RoundTrip ==
  (last.op = "save_config" /\ last.arg = load_config(last.pre)) =>
    /\ load_config(file) = last.arg
    /\ save_config(load_config(file), file) = file

C1_Witness ==
  /\ last.op = "save_config"
  /\ IsLegacy(last.pre)
  /\ Has(TopLevel(last.pre), "extra")
  /\ last.arg = load_config(last.pre)
  /\ last.arg = <<[name |-> "Default", items |-> <<Calc>>]>>
  /\ load_config(file) = last.arg
  /\ file # last.pre

\* C2: legacy migration. A file with top-level items and no sections loads as
\* exactly one section named Default holding the file's items in their order.
C2_LegacyMigration ==
  (last.op = "load_config" /\ IsLegacy(last.pre)) =>
    last.retSections = <<[name |-> "Default", items |-> TopLevel(last.pre)["items"]]>>

C2_Witness ==
  /\ last.op = "load_config"
  /\ IsLegacy(last.pre)
  /\ last.retSections = <<[name |-> "Default", items |-> <<Calc, Web>>]>>

\* C4: save_config(sections) sets the file's sections to exactly the given
\* list and leaves every other top-level key of the file with its value.
C4_SaveFrame ==
  (last.op = "save_config") =>
    LET old == TopLevel(last.pre)
        new == TopLevel(file)
    IN  /\ file.exists
        /\ DOMAIN new = (DOMAIN old) \cup {"sections"}
        /\ {file.text.keys[i] : i \in DOMAIN file.text.keys} = DOMAIN new
        /\ new["sections"] = last.arg
        /\ \A k \in (DOMAIN old) \ {"sections"} : new[k] = old[k]

C4_Witness ==
  /\ last.op = "save_config"
  /\ DOMAIN TopLevel(last.pre) = {"extra", "items", "panel", "sections", "theme"}
  /\ TopLevel(last.pre)["sections"] # last.arg
  /\ TopLevel(file)["sections"] = last.arg
  /\ TopLevel(file)["theme"] = "solar"
  /\ file.text.keys # last.pre.text.keys

\* C9: load_panel_position returns top when the file is missing, has no panel
\* map, no panel.position, or a position that lower-cased is not one of top,
\* bottom, left, right; otherwise the lower-cased stored value; the result is
\* always one of the four.
C9_PanelPosition ==
  (last.op = "load_panel_position") =>
    LET data   == TopLevel(last.pre)
        stored == IF Has(data, "panel") /\ Has(data["panel"], "position")
                    THEN {data["panel"]["position"]} ELSE {}
        valid  == {Lower(p) : p \in stored} \cap
                    {<<"t", "o", "p">>, <<"b", "o", "t", "t", "o", "m">>,
                     <<"l", "e", "f", "t">>, <<"r", "i", "g", "h", "t">>}
    IN  /\ valid = {} => last.retPosition = <<"t", "o", "p">>
        /\ valid # {} => last.retPosition \in valid
        /\ last.retPosition \in {<<"t", "o", "p">>, <<"b", "o", "t", "t", "o", "m">>,
                                 <<"l", "e", "f", "t">>, <<"r", "i", "g", "h", "t">>}

C9_Witness ==
  /\ last.op = "load_panel_position"
  /\ Has(TopLevel(last.pre), "panel")
  /\ Has(TopLevel(last.pre)["panel"], "position")
  /\ TopLevel(last.pre)["panel"]["position"] = <<"L", "E", "F", "T">>
  /\ last.retPosition = <<"l", "e", "f", "t">>

\* C10: with no config file every reader returns its default and creates no
\* file (load_config the empty list, load_theme dark, load_panel_position top,
\* load_panel_geometry (0, 0)); save_config and save_panel_geometry create a
\* file holding only the key they write.
C10_MissingFile ==
  (last.op # "none" /\ ~last.pre.exists) =>
    /\ last.op = "load_config" => last.retSections = <<>> /\ file = last.pre
    /\ last.op = "load_theme" => last.retTheme = "dark" /\ file = last.pre
    /\ last.op = "load_panel_position" => last.retPosition = <<"t", "o", "p">> /\ file = last.pre
    /\ last.op = "load_panel_geometry" => last.retGeometry = <<0, 0>> /\ file = last.pre
    /\ last.op = "save_config" =>
         /\ file.exists
         /\ file.text.keys = <<"sections">>
         /\ TopLevel(file) = [sections |-> last.arg]
    /\ last.op = "save_panel_geometry" =>
         /\ file.exists
         /\ file.text.keys = <<"panel">>
         /\ TopLevel(file) = [panel |-> [x |-> last.x, y |-> last.y]]

C10_Witness ==
  /\ last.op = "save_panel_geometry"
  /\ ~last.pre.exists
  /\ last.x = 1
  /\ file.exists
  /\ load_panel_geometry(file) = <<1, last.y>>

\* ------------------------------------------- the main window's handlers
SectionOps == {"add_section", "edit_section", "remove_section"}

ItemOps == {"add_item", "edit_item", "remove_item"}

\* The list without its i-th entry.
Without(list, i) == SubSeq(list, 1, i - 1) \o SubSeq(list, i + 1, Len(list))

ItemsOf(sec) == IF "items" \in DOMAIN sec THEN sec["items"] ELSE <<>>

\* Sections old and new differ at most in their items.
SameButItems(old, new) ==
  /\ (DOMAIN old) \cup {"items"} = (DOMAIN new) \cup {"items"}
  /\ \A k \in (DOMAIN old) \ {"items"} : new[k] = old[k]

\* The list `new` is `old` with the one change a handler of kind op makes:
\* one entry appended, one entry replaced by what a form holds, one removed.
OneChange(op, old, new) ==
  CASE op = "add_section" ->
         \E f \in SectionForms :
           new = old \o <<[name |-> get_name(f), icon |-> get_icon(f), items |-> <<>>]>>
    [] op = "edit_section" ->
         /\ Len(new) = Len(old)
         /\ \E i \in DOMAIN old, f \in SectionForms :
              /\ new[i]["name"] = get_name(f)
              /\ new[i]["icon"] = get_icon(f)
              /\ (DOMAIN new[i]) = (DOMAIN old[i]) \cup {"name", "icon"}
              /\ \A k \in (DOMAIN old[i]) \ {"name", "icon"} : new[i][k] = old[i][k]
              /\ \A j \in (DOMAIN old) \ {i} : new[j] = old[j]
    [] op = "remove_section" ->
         \E i \in DOMAIN old : new = Without(old, i)
    [] op \in ItemOps ->
         /\ Len(new) = Len(old)
         /\ \E i \in DOMAIN old :
              /\ \A j \in (DOMAIN old) \ {i} : new[j] = old[j]
              /\ SameButItems(old[i], new[i])
              /\ "items" \in DOMAIN new[i]
              /\ LET was == ItemsOf(old[i])
                     now == new[i]["items"]
                 IN  CASE op = "add_item" -> \E f \in ItemForms : now = was \o <<get_data(f)>>
                       [] op = "edit_item" ->
                            \E k \in DOMAIN was, f \in ItemForms : now = [was EXCEPT ![k] = get_data(f)]
                       [] op = "remove_item" -> \E k \in DOMAIN was : now = Without(was, k)

\* C3: Add Section (accepted), then Add Item into the new section (accepted),
\* then Remove Section with the new section selected: load_config() then
\* returns the list as it was before, without the added section and its item
\* and with every earlier section unchanged.
C3_AddAddRemove ==
  scen.phase = 3 => /\ load_config(file) = scen.base
                    /\ sections = scen.base

\* A handler run in which the user pressed Cancel in a dialog it showed (the
\* item dialog is shown when itemPos is set, the form when the index is).
Cancelled(l) ==
  \/ ~l.secOk
  \/ l.itemPos # 0 /\ ~l.itemOk
  \/ l.op = "edit_section" /\ l.idx # 0 /\ ~l.accept
  \/ l.op = "edit_item" /\ l.itemIdx # 0 /\ ~l.accept

\* C5: Edit Section, Remove Section, Edit Item and Remove Item act on the
\* entry at the position chosen in the selection dialog and on no other
\* entry, also when names repeat or are empty: when no dialog is cancelled the
\* handler resolves the positions chosen, and the list it saves differs from
\* the list before in the entry at those positions alone.
C5_ByPosition ==
  [][ (last'.op \in {"edit_section", "remove_section", "edit_item", "remove_item"}
       /\ sections # <<>> /\ ~Cancelled(last')) =>
        LET l == last'
        IN  /\ l.idx = l.secPos
            /\ l.itemPos # 0 => l.itemIdx = l.itemPos
            /\ l.saved =>
                 CASE l.op = "remove_section" -> sections' = Without(sections, l.secPos)
                   [] l.op = "edit_section" ->
                        /\ Len(sections') = Len(sections)
                        /\ \A j \in (DOMAIN sections) \ {l.secPos} : sections'[j] = sections[j]
                        /\ ItemsOf(sections'[l.secPos]) = ItemsOf(sections[l.secPos])
                   [] l.op \in {"edit_item", "remove_item"} ->
                        /\ Len(sections') = Len(sections)
                        /\ \A j \in (DOMAIN sections) \ {l.secPos} : sections'[j] = sections[j]
                        /\ l.itemPos \in DOMAIN ItemsOf(sections[l.secPos])
                        /\ LET was == ItemsOf(sections[l.secPos])
                               now == ItemsOf(sections'[l.secPos])
                           IN  IF l.op = "remove_item"
                                 THEN now = Without(was, l.itemPos)
                                 ELSE /\ Len(now) = Len(was)
                                      /\ \A k \in (DOMAIN was) \ {l.itemPos} : now[k] = was[k]
    ]_vars

AppendedOne(old, new) == Len(new) = Len(old) + 1 /\ \A i \in DOMAIN old : new[i] = old[i]

\* The lists have the same length and differ in at most one place.
SamePlaces(old, new) == Len(new) = Len(old) /\ Cardinality({i \in DOMAIN old : new[i] # old[i]}) <= 1

\* The new list is the old one with one entry taken out, the rest in order.
RemovedOne(old, new) == \E i \in DOMAIN old : new = Without(old, i)

\* C7: order is preserved by every main-window operation: Add Section and Add
\* Item put the new entry at the end of its list, Edit keeps every entry at its
\* position, Remove takes one entry out and keeps the order of the others; and
\* saving the list and loading it returns sections and items in the same order.
C7_OrderPreserved ==
  [][ (last'.op \in SectionOps \cup ItemOps /\ last'.saved) =>
        /\ last'.op = "add_section" => AppendedOne(sections, sections')
        /\ last'.op = "edit_section" => SamePlaces(sections, sections')
        /\ last'.op = "remove_section" => RemovedOne(sections, sections')
        /\ last'.op \in ItemOps =>
             /\ SamePlaces(SectionNames(sections), SectionNames(sections'))
             /\ SamePlaces(sections, sections')
             /\ \A i \in DOMAIN sections :
                  sections'[i] # sections[i] =>
                    CASE last'.op = "add_item" -> AppendedOne(ItemsOf(sections[i]), ItemsOf(sections'[i]))
                      [] last'.op = "edit_item" -> SamePlaces(ItemsOf(sections[i]), ItemsOf(sections'[i]))
                      [] last'.op = "remove_item" -> RemovedOne(ItemsOf(sections[i]), ItemsOf(sections'[i]))
        /\ load_config(save_config(sections', file')) = sections'
    ]_vars

C7_Witness ==
  /\ last.op = "add_item"
  /\ last.saved
  /\ Len(sections) = 1
  /\ Len(ItemsOf(sections[1])) = 2
  /\ sections[1]["items"][1]["type"] # sections[1]["items"][2]["type"]
  /\ sections[1]["items"][2]["name"] = ""

\* C8 as claimed: when the file was edited by another party since the window
\* last loaded it, the window's next save leaves the file as the window's
\* stale copy with the window's list for sections: nothing of the external
\* edit remains.
C8_ExternalEditGone ==
  [][ (last'.op \in SectionOps \cup ItemOps /\ last'.saved /\ file # seen) =>
        /\ TopLevel(file')["sections"] = sections'
        /\ OneChange(last'.op, sections, sections')
        /\ TopLevel(file') = Put(TopLevel(seen), "sections", sections')
    ]_vars

\* C8 as amended: when the file was edited by another party since the window
\* last loaded it, the window's next save sets the file's sections to the
\* window's in-memory list (its stale copy with the window's one change), so
\* an external change to sections is gone; every other top-level key keeps
\* the value the external edit left.
C8_ExternalSectionsClobbered ==
  [][ (last'.op \in SectionOps \cup ItemOps /\ last'.saved /\ file # seen) =>
        /\ TopLevel(file')["sections"] = sections'
        /\ OneChange(last'.op, sections, sections')
        /\ TopLevel(file') = Put(TopLevel(file), "sections", sections')
    ]_vars

C8_Witness ==
  /\ last.op = "add_section"
  /\ last.saved
  /\ last.stale
  /\ TopLevel(file) = [sections |-> <<[name |-> "", icon |-> "i", items |-> <<>>]>>, theme |-> "light"]
  /\ sections = TopLevel(file)["sections"]

\* ---------------------------------------------------------------- launching
\* The item launched and its type and command, None when missing.
LaunchType(l) == Get(l.item, "type", None)

LaunchCommand(l) == Get(l.item, "command", None)

C12_Dispatch ==
  [][last'.op = "launch_item" =>
       LET l   == last'
           cmd == LaunchCommand(l)
       IN  /\ (cmd = None \/ cmd = "") => l.calls = NoCalls
           /\ (cmd # None /\ cmd # "" /\ LaunchType(l) = "url") =>
                 l.calls.browser = <<cmd>> /\ l.calls.popen = <<>>
           /\ (cmd # None /\ cmd # "" /\ LaunchType(l) # "url") =>
                 l.calls.popen = <<[args |-> cmd, shell |-> TRUE]>> /\ l.calls.browser = <<>>
           /\ sections' = sections
           /\ file' = file]_vars

C12_Witness ==
  /\ last.op = "launch_item"
  /\ LaunchType(last) = None
  /\ last.calls.popen = <<[args |-> "c", shell |-> TRUE]>>
  /\ last.calls.browser = <<>>

\* ------------------------------------------------------ the panel's geometry
\* The keys of a mapping other than those in ks are in `new` what they are
\* in `old`.
SameExcept(old, new, ks) ==
  /\ (DOMAIN old) \ ks = (DOMAIN new) \ ks
  /\ \A k \in (DOMAIN old) \ ks : new[k] = old[k]

PanelOf(f) == Get(TopLevel(f), "panel", EmptyMap)

\* C13: the release that ends a drag saves the window's position: after it
\* load_panel_geometry returns that position, and sections, theme,
\* panel.position and every other key of the file are what they were, and
\* _drag_pos is None.  The stored panel changes in no other step, and
\* _drag_pos is set only by a press of the left button, so the geometry is
\* saved only on a release that follows a left-button press.
C13_GeometrySaved ==
  [][/\ (last'.op = "mouseReleaseEvent" /\ last'.saved) =>
          /\ _drag_pos # None /\ _drag_pos' = None
          /\ file'.exists
          /\ load_panel_geometry(file') = window_pos
          /\ SameExcept(TopLevel(file), TopLevel(file'), {"panel"})
          /\ SameExcept(PanelOf(file), PanelOf(file'), {"x", "y"})
     /\ (last'.op = "mouseReleaseEvent" /\ ~last'.saved) =>
          _drag_pos = None /\ _drag_pos' = None /\ file' = file
     /\ (Has(TopLevel(file'), "panel") # Has(TopLevel(file), "panel") \/ PanelOf(file') # PanelOf(file)) =>
          last'.op = "mouseReleaseEvent" /\ last'.saved
     /\ (_drag_pos = None /\ _drag_pos' # None) =>
          last'.op = "mousePressEvent" /\ last'.button = "left"]_vars

\* A drag has moved the window and its release has saved the new position
\* into a file that holds a panel position and an unknown key.
C13_Witness ==
  /\ last.op = "mouseReleaseEvent" /\ last.saved
  /\ load_panel_geometry(last.pre) # window_pos
  /\ load_panel_geometry(file) = window_pos
  /\ Has(PanelOf(file), "position")
  /\ Has(TopLevel(file), "extra")
  /\ _drag_pos = None

\* ------------------------------------------------------------------ the theme
\* C17: _toggle_theme writes light when the file's theme is dark or the file
\* or the key is missing, and dark for any other theme; load_theme then
\* returns what was written; sections, panel and every other key are what
\* they were; and the second of two toggles in a row that started from dark
\* or light brings that theme back.
C17_ToggleTheme ==
  [][last'.op = "_toggle_theme" =>
       LET stored == Get(TopLevel(file), "theme", "(missing)")
           wrote  == IF stored \in {"dark", "(missing)"} THEN "light" ELSE "dark"
       IN  /\ file'.exists
           /\ Get(TopLevel(file'), "theme", "(missing)") = wrote
           /\ load_theme(file') = wrote
           /\ SameExcept(TopLevel(file), TopLevel(file'), {"theme"})
           /\ last'.start \in {"dark", "light"} => load_theme(file') = last'.start]_vars

\* Two toggles in a row that started from light, in a file that holds a panel.
C17_Witness ==
  /\ last.op = "_toggle_theme"
  /\ last.start = "light"
  /\ load_theme(last.pre) = "dark"
  /\ load_theme(file) = "light"
  /\ Has(TopLevel(file), "panel")

\* ------------------------------------------------------ cancelled operations
\* The handler run recorded in l, started on the list secs, showed a dialog
\* that the user cancelled: the section selection, the item selection, or
\* the form.
CancelledAtDialog(l) ==
  \/ l.secPos # 0 /\ ~l.secOk
  \/ l.itemPos # 0 /\ ~l.itemOk
  \/ l.op = "add_section" /\ ~l.accept
  \/ l.op \in {"edit_section", "add_item"} /\ l.idx # 0 /\ ~l.accept
  \/ l.op = "edit_item" /\ l.itemIdx # 0 /\ ~l.accept

\* Edit Item or Remove Item resolved a section that holds no items.
NoItemsToPick(l, secs) ==
  /\ l.op \in {"edit_item", "remove_item"}
  /\ l.idx # 0
  /\ ItemsOf(secs[l.idx]) = <<>>

\* The run left the list and the file as they were and did not save.
NothingDone(l) == sections' = sections /\ file' = file /\ ~l.saved

Count(list, x) == Cardinality({i \in DOMAIN list : list[i] = x})

IsPermutation(old, new) ==
  /\ Len(new) = Len(old)
  /\ \A i \in DOMAIN old : Count(new, old[i]) = Count(old, old[i])

\* `new` is `old` after the move of row `start` to before row `row` (both
\* counted from 0, in the list as it was): a permutation, with the entry
\* moved at index row or row - 1, the others in the order they had, and
\* nothing changed by a move onto its own place.
RowMoved(old, new, start, row) ==
  /\ IsPermutation(old, new)
  /\ row < start => At(new, row) = At(old, start)
  /\ row > start => At(new, row - 1) = At(old, start)
  /\ pop(new, IF row < start THEN row ELSE IF row > start THEN row - 1 ELSE start) = pop(old, start)
  /\ (start = row \/ start = row - 1) => new = old

CurrentItems(m) == ItemsOf(At(m.sections, m.section_row))

\* C14: a row of the section list, or of the item list, dragged from `start`
\* to before `row`: the manager's list of sections, or of the current
\* section's items, is afterwards the list before with that one entry moved
\* (see RowMoved), everything else in the manager's list is as it was, and
\* the list has the order of the texts the list widget shows.
C14_Reordered ==
  [][/\ last'.op = "_sections_reordered" =>
          /\ RowMoved(manager.sections, manager'.sections, last'.start, last'.row)
          /\ manager'.section_list = SectionNames(manager'.sections)
     /\ last'.op = "_items_reordered" =>
          /\ manager'.section_row = manager.section_row
          /\ manager.section_row >= 0
          /\ RowMoved(CurrentItems(manager), CurrentItems(manager'), last'.start, last'.row)
          /\ manager'.item_list = ItemNames(CurrentItems(manager'))
          /\ Len(manager'.sections) = Len(manager.sections)
          /\ \A i \in DOMAIN manager.sections :
                /\ SameButItems(manager.sections[i], manager'.sections[i])
                /\ i # manager.section_row + 1 => manager'.sections[i] = manager.sections[i]]_vars

\* The first of three or more sections has been dragged to the end, after
\* the last item of a section was dragged to its front.
C14_Witness ==
  /\ manager.open
  /\ last.op = "_sections_reordered"
  /\ last.start = 0 /\ last.row = Len(manager.sections) /\ last.row >= 3
  /\ SectionNames(manager.sections) = SubSeq(SectionNames(load_config(file)), 2, last.row)
                                        \o <<"A">>
  /\ manager.section_list = SectionNames(manager.sections)
  /\ manager.section_row = last.row - 1
  /\ ItemNames(CurrentItems(manager)) = <<RowNames[MaxRows]>> \o SubSeq(RowNames, 1, MaxRows - 1)
  /\ manager.item_list = ItemNames(CurrentItems(manager))

\* The handlers that change the manager's list.
ManagerEdits == {"_add_section", "_edit_section", "_remove_section",
                 "_add_item", "_edit_item", "_remove_item",
                 "_sections_reordered", "_items_reordered"}

\* C15: adding, editing, removing and moving sections or items in the
\* settings manager leaves the config file and the main window's list as
\* they are; the file changes only when Save is pressed, to hold the
\* manager's list.  When the dialog is closed the main window's list is what
\* load_config returns for the file, and the manager is gone; a manager
\* opened later starts from the file again.
C15_EditsUntilSave ==
  [][/\ last'.op \in ManagerEdits => file' = file /\ sections' = sections
     /\ file' # file =>
          /\ last'.op = "ConfigManager.save"
          /\ file' = save_config(manager.sections, file)
          /\ load_config(file') = manager.sections
     /\ last'.op = "_open_settings_closed" =>
          /\ file' = file
          /\ sections' = load_config(file)
          /\ ~manager'.open
     /\ last'.op = "_open_settings" =>
          /\ file' = file
          /\ manager'.sections = load_config(file)
          /\ manager'.section_list = SectionNames(load_config(file))]_vars

\* The dialog was closed on a manager whose list differed from the file's:
\* the main window shows the file's sections.
C15_Witness ==
  /\ last.op = "_open_settings_closed"
  /\ last.unsaved
  /\ manager.edits > 0
  /\ ~manager.open
  /\ sections = load_config(file)
  /\ sections # <<>>

====
